---- MODULE Spec2Model ----
(***************************************************************************)
(* Dendritic Gated Network (DGN) of                                        *)
(* gated_linear_networks/colabs/dendritic_gated_network.ipynb.             *)
(*                                                                         *)
(* Numbers.  The notebook computes in float64.  Here a number is an exact  *)
(* rational <<n, d>> in lowest terms with d > 0, so the polynomial part of *)
(* the computation (dot products, gradients, the delta rule, square loss)  *)
(* is exact.  exp and log are modelled by piecewise-linear interpolation   *)
(* through a table of knots (sigmoid, inverse_sigmoid, NpLog below).       *)
(* A hyperplane is kept as the drawn vector together with the square of    *)
(* the norm it is divided by, since the norm itself is irrational.         *)
(***************************************************************************)
EXTENDS Integers, Sequences, FiniteSets, TLC

----------------------------------------------------------------------------
(* Exact rational arithmetic                                               *)

Abs(i) == IF i < 0 THEN -i ELSE i

RECURSIVE GCD(_, _)
GCD(a, b) == IF b = 0 THEN a ELSE GCD(b, a % b)

Rat(n, d) ==
  LET s == IF d < 0 THEN -1 ELSE 1
      g == GCD(Abs(n), Abs(d))
  IN  <<(s * n) \div g, (s * d) \div g>>

RI(i) == <<i, 1>>
Zero == RI(0)
One == RI(1)

RAdd(x, y) == Rat(x[1] * y[2] + y[1] * x[2], x[2] * y[2])
RSub(x, y) == Rat(x[1] * y[2] - y[1] * x[2], x[2] * y[2])
RMul(x, y) == Rat(x[1] * y[1], x[2] * y[2])
RDiv(x, y) == Rat(x[1] * y[2], x[2] * y[1])
RNeg(x) == <<-x[1], x[2]>>
RAbs(x) == <<Abs(x[1]), x[2]>>
RLt(x, y) == x[1] * y[2] < y[1] * x[2]
RLe(x, y) == x[1] * y[2] <= y[1] * x[2]

RECURSIVE RSum(_)
RSum(s) == IF s = <<>> THEN Zero ELSE RAdd(s[1], RSum(Tail(s)))

RECURSIVE ISum(_)
ISum(s) == IF s = <<>> THEN 0 ELSE s[1] + ISum(Tail(s))

\* a.dot(b) for two vectors of rationals
Dot(a, b) == RSum([k \in 1..Len(a) |-> RMul(a[k], b[k])])

\* a numpy array: the function f on 1..n as the tuple of its values
Array(f) == f \o <<>>

\* the vector of rationals of a vector of integers
RVec(v) == Array([k \in 1..Len(v) |-> RI(v[k])])

----------------------------------------------------------------------------
(* Architecture and initialisation (cells "Define architecture" and        *)
(* "Initialise weights and gating parameters")                             *)

VARIABLES
  n_neurons,        \* number of neurons per layer, the last element is 1
  n_branches,       \* number of dendritic branches per neuron
  n_features,       \* number of input features
  dgn_weights,      \* per layer: [neuron][branch][input] -> rational
  dgn_hyperplanes,  \* per layer: [neuron][branch] -> [num, den2]
  step,             \* "step_bernoulli" or "step_square_loss"
  eta,              \* learning rate
  eps,              \* the epsilon step_bernoulli is called with
  call,             \* the last call of step: arguments, results, per-layer values
  n_calls,          \* number of calls of step made so far
  n_epochs,         \* number of training epochs
  epoch,            \* the epoch of "for epoch in range(0, n_epochs + 1)"
  pc,               \* "calls": step is called on its own; in the training
                    \* loop "train" or "test", the pass under way; "done"
  i,                \* number of examples forward_pass has consumed
  losses, outputs,  \* the arrays of forward_pass
  train_loss, test_loss,
  x_train, y_train, x_test, y_test,
  log               \* the calls of step made in the pass under way

vars == <<n_neurons, n_branches, n_features, dgn_weights, dgn_hyperplanes,
          step, eta, eps, call, n_calls, n_epochs, epoch, pc, i, losses, outputs,
          train_loss, test_loss, x_train, y_train, x_test, y_test, log>>

\* The architectures explored: one neuron with one branch on two features,
\* and a layer of two neurons feeding one output neuron, two branches each.
Architectures ==
  { [n_neurons |-> <<1>>, n_branches |-> 1, n_features |-> 2],
    [n_neurons |-> <<2, 1>>, n_branches |-> 2, n_features |-> 1] }

\* n_inputs = np.hstack([n_features + 1, n_neurons[:-1] + 1])
NInputs(neurons, features) ==
  [l \in 1..Len(neurons) |->
     IF l = 1 THEN features + 1 ELSE neurons[l - 1] + 1]

\* dgn_weights = [np.zeros((n_neuron, n_branches, n_input)) ...]
ZeroWeights(neurons, branches, features) ==
  [l \in 1..Len(neurons) |->
    [n \in 1..neurons[l] |->
      [b \in 1..branches |->
        [k \in 1..NInputs(neurons, features)[l] |-> Zero]]]]

\* The draws of np.random.normal(0, 1, size=(n_branches, n_features + 1))
\* explored, the hyperplanes of one neuron: with one branch on two features,
\* and with two branches on one feature.
NormalSample(branches, features) ==
  IF branches = 1
  THEN { << <<1, 1, 1>> >>, << <<2, -1, -1>> >>, << <<-1, 1, -2>> >> }
  ELSE { << <<1, 1>>, <<-1, 2>> >>, << <<1, -1>>, <<1, 1>> >> }

\* np.random.normal(0, 1, size=(n_neuron, n_branches, n_features + 1))
NormalTensors(neuron, branches, features) ==
  [1..neuron -> NormalSample(branches, features)]

\* dgn_hyperplanes = [np.random.normal(...) for n_neuron in n_neurons]
NormalLayers(neurons, branches, features) ==
  {raw \in [1..Len(neurons) ->
              UNION {NormalTensors(neurons[l], branches, features) :
                       l \in 1..Len(neurons)}] :
     \A l \in 1..Len(neurons) : Len(raw[l]) = neurons[l]}

\* np.linalg.norm(h_[:, :, :-1], axis=(1, 2)) squared, for neuron n of h_:
\* the squares of all components but the last, of all branches of the neuron.
NormSq(h_, n) ==
  ISum([b \in 1..Len(h_[n]) |->
         ISum([k \in 1..(Len(h_[n][b]) - 1) |-> h_[n][b][k] * h_[n][b][k]])])

\* h_ / np.linalg.norm(h_[:, :, :-1], axis=(1, 2))[:, None, None]
\* The quotient num / sqrt(den2) is kept as the pair.
Normalise(h_) ==
  [n \in 1..Len(h_) |->
    [b \in 1..Len(h_[n]) |-> [num |-> h_[n][b], den2 |-> NormSq(h_, n)]]]

----------------------------------------------------------------------------
(* DGN inference/update                                                    *)

\* side_info = np.hstack([hyperplane_bias_magnitude, inputs])
SideInfo(hyperplane_bias_magnitude, inputs) ==
  <<hyperplane_bias_magnitude>> \o inputs

\* h.dot(side_info) for one hyperplane, times the (positive) norm the
\* hyperplane was divided by: the projection is this number / sqrt(den2).
Projection(hp, side_info) ==
  ISum([k \in 1..Len(side_info) |-> hp.num[k] * side_info[k]])

\* Heaviside with np.heaviside(x, 1): a zero projection gates on
HeavisideOneAtZero(x) == x >= 0

\* np.heaviside(x, 0).astype(bool): 0 for x < 0, the second argument 0 for
\* x = 0, 1 for x > 0.  The sign of num.side / sqrt(den2) is that of num.side.
Heaviside(x) == x > 0

\* gate_values = np.heaviside(h.dot(side_info), 0).astype(bool)
GateValues(h, side_info) ==
  Array([n \in 1..Len(h) |->
    Array([b \in 1..Len(h[n]) |->
      Heaviside(Projection(h[n][b], side_info))])])

\* a boolean as the number numpy multiplies with
Num(g) == IF g THEN One ELSE Zero

\* effective_weights = gate_values.dot(w).sum(axis=1)
\* gate_values has shape (N, B) and w has shape (N, B, I), so
\* gate_values.dot(w)[n, j, k] = sum_b gate_values[n, b] * w[j, b, k], of
\* shape (N, N, I), and .sum(axis=1) sums it over j, the neuron index of w.
EffectiveWeights(gate_values, w) ==
  Array([n \in 1..Len(w) |->
    Array([k \in 1..Len(w[1][1]) |->
      RSum([j \in 1..Len(w) |->
        RSum([b \in 1..Len(w[j]) |->
          RMul(Num(gate_values[n][b]), w[j][b][k])])])])])

\* grad = (r_out[:, None] - target) * r_in[None]
Grad(r_out, target, r_in) ==
  Array([n \in 1..Len(r_out) |->
    Array([k \in 1..Len(r_in) |-> RMul(RSub(r_out[n], target), r_in[k])])])

\* GatedDelta without the gate: learning_rate * grad
UngatedDelta(learning_rate, gate, g) == RMul(learning_rate, g)

\* GatedDelta without the learning rate: gate_values * grad
UnscaledDelta(learning_rate, gate, g) == RMul(Num(gate), g)

\* one element of learning_rate * gate_values[:, :, None] * grad[:, None]
GatedDelta(learning_rate, gate, g) == RMul(RMul(learning_rate, Num(gate)), g)

\* w -= learning_rate * gate_values[:, :, None] * grad[:, None]
Descend(w, learning_rate, gate_values, grad) ==
  Array([n \in 1..Len(w) |->
    Array([b \in 1..Len(w[n]) |->
      Array([k \in 1..Len(w[n][b]) |->
        RSub(w[n][b][k],
             GatedDelta(learning_rate, gate_values[n][b], grad[n][k]))])])])

\* Updated without the test of update
UpdatedAlways(update, w, w_descended) == w_descended

\* "if update:" around the in-place update of w
Updated(update, w, w_descended) == IF update THEN w_descended ELSE w

\* The body of "for w, h in zip(weights, hyperplanes)" of step_square_loss
\* for one layer; r_prev is r_in at the top of the iteration.
SquareLayer(w, h, r_prev, side_info, learning_rate, target, update) ==
  LET r_in == <<One>> \o r_prev
      gate_values == GateValues(h, side_info)
      effective_weights == EffectiveWeights(gate_values, w)
      r_out == Array([n \in 1..Len(w) |-> Dot(effective_weights[n], r_in)])
      grad == Grad(r_out, target, r_in)
  IN  [r_in |-> r_in, h_in |-> r_in, gate_values |-> gate_values,
       h_out |-> r_out, r_out_unclipped |-> r_out, r_out |-> r_out,
       update_indicator |-> Array([n \in 1..Len(w) |-> TRUE]),
       w |-> Updated(update, w, Descend(w, learning_rate, gate_values, grad))]

\* the layers of step_square_loss from layer l on; the value is the
\* sequence of the per-layer records
RECURSIVE SquareLayers(_, _, _, _, _, _, _, _)
SquareLayers(l, weights, hyperplanes, r_prev, side_info, learning_rate, target, update) ==
  IF l > Len(weights) THEN <<>>
  ELSE LET layer == SquareLayer(weights[l], hyperplanes[l], r_prev, side_info,
                                learning_rate, target, update)
       IN  <<layer>> \o SquareLayers(l + 1, weights, hyperplanes, layer.r_out,
                                     side_info, learning_rate, target, update)

\* loss = (target - r_out)**2 / 2
SquareLoss(target, r_out) ==
  RDiv(RMul(RSub(target, r_out), RSub(target, r_out)), RI(2))

\* step_square_loss: the record of the call, with the weights it leaves
step_square_loss(inputs, weights, hyperplanes, hyperplane_bias_magnitude, learning_rate, target, update) ==
  LET side_info == SideInfo(hyperplane_bias_magnitude, inputs)
      layers == SquareLayers(1, weights, hyperplanes, RVec(inputs), side_info,
                             learning_rate, target, update)
      r_out == layers[Len(layers)].r_out
  IN  [fn |-> "step_square_loss", inputs |-> inputs, target |-> target,
       learning_rate |-> learning_rate, update |-> update,
       side_info |-> side_info, w_before |-> weights,
       h_before |-> hyperplanes, layers |-> layers,
       weights |-> Array([l \in 1..Len(layers) |-> layers[l].w]),
       hyperplanes |-> hyperplanes,
       r_out |-> r_out[1], loss |-> SquareLoss(target, r_out[1])]

\* RFloor(x) is the largest integer <= x, for x >= 0
RFloor(x) == x[1] \div x[2]

\* The knots of the logistic function at 0, 1, ..., 7 (1-indexed by k + 1):
\* 1/(1+exp(-k)) rounded, and 1.0 from 7 on, where the model lets float64
\* saturate (float64 does for x > 36.7).
SigmoidKnots ==
  <<<<1, 2>>, <<73, 100>>, <<22, 25>>, <<19, 20>>, <<49, 50>>,
    <<199, 200>>, <<399, 400>>, One>>

LastKnot == Len(SigmoidKnots) - 1

\* the interpolant through SigmoidKnots, for x >= 0
SigmoidPos(x) ==
  IF RLe(RI(LastKnot), x) THEN SigmoidKnots[LastKnot + 1]
  ELSE LET k == RFloor(x)
           lo == SigmoidKnots[k + 1]
           hi == SigmoidKnots[k + 2]
       IN  RAdd(lo, RMul(RSub(x, RI(k)), RSub(hi, lo)))

\* def sigmoid(x): return np.exp(-np.logaddexp(0, -x))
sigmoid(x) ==
  IF RLe(Zero, x) THEN SigmoidPos(x) ELSE RSub(One, SigmoidPos(RNeg(x)))

\* the inverse of SigmoidPos, for 1/2 <= p; log(1/0) = inf is kept at the
\* last knot
LogitPos(p) ==
  IF RLe(One, p) THEN RI(LastKnot)
  ELSE LET k == CHOOSE j \in 0..(LastKnot - 1) :
                  /\ RLe(SigmoidKnots[j + 1], p)
                  /\ RLt(p, SigmoidKnots[j + 2])
           lo == SigmoidKnots[k + 1]
           hi == SigmoidKnots[k + 2]
       IN  RAdd(RI(k), RDiv(RSub(p, lo), RSub(hi, lo)))

\* def inverse_sigmoid(x): return np.log(x/(1-x))
inverse_sigmoid(x) ==
  IF RLe(<<1, 2>>, x) THEN LogitPos(x) ELSE RNeg(LogitPos(RSub(One, x)))

\* Clip without the upper bound: np.maximum(x, lo)
ClipBelowOnly(x, lo, hi) == IF RLt(x, lo) THEN lo ELSE x

\* np.clip(x, lo, hi)
Clip(x, lo, hi) == IF RLt(x, lo) THEN lo ELSE IF RLt(hi, x) THEN hi ELSE x

\* The knots <<p, log(p)>> of the natural logarithm on [0.01, 1]
LogKnots ==
  << <<<<1, 100>>, <<-23, 5>>>>, <<<<1, 20>>, RI(-3)>>,
     <<<<1, 10>>, <<-23, 10>>>>, <<<<1, 4>>, <<-7, 5>>>>,
     <<<<1, 2>>, <<-7, 10>>>>, <<<<3, 4>>, <<-3, 10>>>>, <<One, Zero>> >>

\* np.log(p), by interpolation through LogKnots; arguments outside
\* [0.01, 1] take the value at the nearest knot
NpLog(p) ==
  IF RLe(p, LogKnots[1][1]) THEN LogKnots[1][2]
  ELSE IF RLe(One, p) THEN Zero
  ELSE LET k == CHOOSE j \in 1..(Len(LogKnots) - 1) :
                  /\ RLe(LogKnots[j][1], p)
                  /\ RLt(p, LogKnots[j + 1][1])
           lo == LogKnots[k]
           hi == LogKnots[k + 1]
       IN  RAdd(lo[2], RMul(RDiv(RSub(p, lo[1]), RSub(hi[1], lo[1])),
                            RSub(hi[2], lo[2])))

\* UpdateIndicator that never skips
UpdateIndicatorAlways(target, r_out_unclipped, epsilon) == TRUE

\* update_indicator = np.abs(target - r_out_unclipped) > epsilon, one neuron
UpdateIndicator(target, r_out_unclipped, epsilon) ==
  RLt(epsilon, RAbs(RSub(target, r_out_unclipped)))

\* grad = (r_out[:, None] - target) * h_in[None] * update_indicator[:, None]
GradBernoulli(r_out, target, h_in, update_indicator) ==
  Array([n \in 1..Len(r_out) |->
    Array([k \in 1..Len(h_in) |->
      RMul(RMul(RSub(r_out[n], target), h_in[k]),
           Num(update_indicator[n]))])])

\* The body of "for w, h in zip(weights, hyperplanes)" of step_bernoulli
\* for one layer; r_prev is r_in at the top of the iteration.
BernoulliLayer(w, h, r_prev, side_info, learning_rate, epsilon, target, update) ==
  LET r_in == <<sigmoid(One)>> \o r_prev
      h_in == Array([k \in 1..Len(r_in) |-> inverse_sigmoid(r_in[k])])
      gate_values == GateValues(h, side_info)
      effective_weights == EffectiveWeights(gate_values, w)
      h_out == Array([n \in 1..Len(w) |-> Dot(effective_weights[n], h_in)])
      r_out_unclipped == Array([n \in 1..Len(w) |-> sigmoid(h_out[n])])
      r_out == Array([n \in 1..Len(w) |->
                  Clip(r_out_unclipped[n], epsilon, RSub(One, epsilon))])
      update_indicator ==
        Array([n \in 1..Len(w) |->
           UpdateIndicator(target, r_out_unclipped[n], epsilon)])
      grad == GradBernoulli(r_out, target, h_in, update_indicator)
  IN  [r_in |-> r_in, h_in |-> h_in, gate_values |-> gate_values,
       h_out |-> h_out, r_out_unclipped |-> r_out_unclipped, r_out |-> r_out,
       update_indicator |-> update_indicator,
       w |-> Updated(update, w, Descend(w, learning_rate, gate_values, grad))]

RECURSIVE BernoulliLayers(_, _, _, _, _, _, _, _, _)
BernoulliLayers(l, weights, hyperplanes, r_prev, side_info, learning_rate, epsilon, target, update) ==
  IF l > Len(weights) THEN <<>>
  ELSE LET layer == BernoulliLayer(weights[l], hyperplanes[l], r_prev,
                                   side_info, learning_rate, epsilon, target,
                                   update)
       IN  <<layer>> \o BernoulliLayers(l + 1, weights, hyperplanes,
                                        layer.r_out, side_info, learning_rate,
                                        epsilon, target, update)

\* loss = - (target * np.log(r_out) + (1 - target) * np.log(1 - r_out))
BernoulliLoss(target, r_out) ==
  RNeg(RAdd(RMul(target, NpLog(r_out)),
            RMul(RSub(One, target), NpLog(RSub(One, r_out)))))

\* step_bernoulli: the record of the call, with the weights it leaves
step_bernoulli(inputs, weights, hyperplanes, hyperplane_bias_magnitude, learning_rate, epsilon, target, update) ==
  LET r_in == Array([k \in 1..Len(inputs) |->
                 Clip(sigmoid(RI(inputs[k])), epsilon, RSub(One, epsilon))])
      side_info == SideInfo(hyperplane_bias_magnitude, inputs)
      layers == BernoulliLayers(1, weights, hyperplanes, r_in, side_info,
                                learning_rate, epsilon, target, update)
      r_out == layers[Len(layers)].r_out
  IN  [fn |-> "step_bernoulli", inputs |-> inputs, target |-> target,
       learning_rate |-> learning_rate, update |-> update,
       side_info |-> side_info, w_before |-> weights,
       h_before |-> hyperplanes, layers |-> layers,
       weights |-> Array([l \in 1..Len(layers) |-> layers[l].w]),
       hyperplanes |-> hyperplanes,
       r_out |-> r_out[1], loss |-> BernoulliLoss(target, r_out[1])]

\* the defaults of the keyword arguments of both step functions
DefaultHyperplaneBiasMagnitude == 1
DefaultEpsilon == <<1, 100>>

----------------------------------------------------------------------------
(* Calls of step on its own: the step function of the run, on any example  *)

MaxCalls == 2

\* the rows of the feature matrix explored
FeatureRows(features) ==
  IF features = 1
  THEN << <<-1>>, <<1>>, <<3>> >>
  ELSE << <<1, 1>>, <<3, -1>>, <<-1, -1>> >>

Examples(features) ==
  {FeatureRows(features)[j] : j \in 1..Len(FeatureRows(features))}

\* Calls are explored from weights whose denominators are at most
\* MaxDenominator, which keeps the arithmetic of a call within TLC's integers.
MaxDenominator == 100

Coarse(weights) ==
  \A l \in 1..Len(weights) : \A n \in 1..Len(weights[l]) :
    \A b \in 1..Len(weights[l][n]) : \A k \in 1..Len(weights[l][n][b]) :
      weights[l][n][b][k][2] <= MaxDenominator

\* the targets: labels 0/1 for classification, standardised values otherwise
Targets(fn) == IF fn = "step_bernoulli" THEN {0, 1} ELSE {-1, 2}

\* the learning rate the run uses with each step function
LearningRate(fn) == IF fn = "step_bernoulli" THEN <<1, 1>> ELSE <<1, 10>>

\* epsilon of step_bernoulli: its default 0.01, and 0.1; step_square_loss
\* has no such argument
Epsilons(fn) ==
  IF fn = "step_bernoulli" THEN {DefaultEpsilon, <<1, 10>>} ELSE {DefaultEpsilon}

NoCall == [fn |-> "none"]

InitNetwork ==
  /\ \E a \in Architectures :
       /\ n_neurons = a.n_neurons
       /\ n_branches = a.n_branches
       /\ n_features = a.n_features
  /\ dgn_weights = ZeroWeights(n_neurons, n_branches, n_features)
  /\ \E raw \in NormalLayers(n_neurons, n_branches, n_features) :
       dgn_hyperplanes = [l \in 1..Len(n_neurons) |-> Normalise(raw[l])]
  /\ step \in {"step_bernoulli", "step_square_loss"}
  /\ eta = LearningRate(step)
  /\ eps \in Epsilons(step)
  /\ call = NoCall
  /\ n_calls = 0

Init ==
  /\ InitNetwork
  /\ pc = "calls"
  /\ n_epochs = 0 /\ epoch = 0 /\ i = 0
  /\ losses = <<>> /\ outputs = <<>>
  /\ train_loss = Zero /\ test_loss = Zero
  /\ x_train = <<>> /\ y_train = <<>> /\ x_test = <<>> /\ y_test = <<>>
  /\ log = <<>>

driver_vars == <<n_epochs, epoch, pc, i, losses, outputs, train_loss,
                 test_loss, x_train, y_train, x_test, y_test, log>>
network_vars == <<n_neurons, n_branches, n_features, step, eta, eps>>

\* step_square_loss(inputs, dgn_weights, dgn_hyperplanes, target=target,
\*                  learning_rate=eta, update=update)
StepSquareLoss ==
  /\ pc = "calls" /\ step = "step_square_loss" /\ n_calls < MaxCalls
  /\ Coarse(dgn_weights)
  /\ \E inputs \in Examples(n_features), target \in Targets(step),
        update \in BOOLEAN :
       /\ call' = step_square_loss(inputs, dgn_weights, dgn_hyperplanes,
                                   DefaultHyperplaneBiasMagnitude, eta,
                                   RI(target), update)
       /\ dgn_weights' = call'.weights
       /\ dgn_hyperplanes' = call'.hyperplanes
  /\ n_calls' = n_calls + 1
  /\ UNCHANGED <<network_vars, driver_vars>>

\* step_bernoulli(inputs, dgn_weights, dgn_hyperplanes, target=target,
\*                learning_rate=eta, update=update)
StepBernoulli ==
  /\ pc = "calls" /\ step = "step_bernoulli" /\ n_calls < MaxCalls
  /\ Coarse(dgn_weights)
  /\ \E inputs \in Examples(n_features), target \in Targets(step),
        update \in BOOLEAN :
       /\ call' = step_bernoulli(inputs, dgn_weights, dgn_hyperplanes,
                                 DefaultHyperplaneBiasMagnitude, eta,
                                 eps, RI(target), update)
       /\ dgn_weights' = call'.weights
       /\ dgn_hyperplanes' = call'.hyperplanes
  /\ n_calls' = n_calls + 1
  /\ UNCHANGED <<network_vars, driver_vars>>

\* step_fn(x_i, weights, hyperplanes, target=y_i,
\*         learning_rate=learning_rate, update=update);
\* epsilon is the one the run calls step_bernoulli with
StepFn(step_fn, x_i, weights, hyperplanes, target, learning_rate, epsilon, update) ==
  IF step_fn = "step_bernoulli"
  THEN step_bernoulli(x_i, weights, hyperplanes,
                      DefaultHyperplaneBiasMagnitude, learning_rate, epsilon,
                      target, update)
  ELSE step_square_loss(x_i, weights, hyperplanes,
                        DefaultHyperplaneBiasMagnitude, learning_rate, target,
                        update)

Next == StepSquareLoss \/ StepBernoulli

Spec == Init /\ [][Next]_vars

----------------------------------------------------------------------------
(* The training loop (cell "Train") and forward_pass                       *)

MaxEpochs == 1

\* the targets of the rows of FeatureRows: alternating over Targets(fn)
TargetRows(fn) ==
  IF fn = "step_bernoulli" THEN <<0, 1, 0>> ELSE <<-1, 2, -1>>

\* model_selection.train_test_split(features, targets, test_size=0.2,
\* random_state=0): the rows in some order, the last one for the test set
Splits(features, fn) ==
  LET rows == 1..Len(FeatureRows(features))
  IN  {[x_train |-> <<FeatureRows(features)[p[1]], FeatureRows(features)[p[2]]>>,
        y_train |-> <<TargetRows(fn)[p[1]], TargetRows(fn)[p[2]]>>,
        x_test |-> <<FeatureRows(features)[p[3]]>>,
        y_test |-> <<TargetRows(fn)[p[3]]>>] :
         p \in {q \in [1..3 -> rows] : \A a, b \in 1..3 : a # b => q[a] # q[b]}}

\* np.zeros(len(y))
Zeros(y) == [j \in 1..Len(y) |-> Zero]

\* np.mean(losses)
Mean(a) == RDiv(RSum(a), RI(Len(a)))

\* TrainUpdate with update=(epoch >= 0)
TrainUpdateFromZero(e) == e >= 0

\* update=(epoch > 0) of the training-set pass
TrainUpdate(e) == e > 0

InitDriver ==
  /\ InitNetwork
  /\ eps = DefaultEpsilon
  /\ n_epochs \in 0..MaxEpochs
  /\ \E split \in Splits(n_features, step) :
       /\ x_train = split.x_train /\ y_train = split.y_train
       /\ x_test = split.x_test /\ y_test = split.y_test
  /\ epoch = 0 /\ pc = "train" /\ i = 0
  /\ losses = Zeros(y_train) /\ outputs = Zeros(y_train)
  /\ train_loss = Zero /\ test_loss = Zero
  /\ log = <<>>

\* the arguments x, y and update the training loop calls forward_pass with,
\* in the training-set pass and in the test-set pass
PassX == IF pc = "train" THEN x_train ELSE x_test
PassY == IF pc = "train" THEN y_train ELSE y_test
PassUpdate == IF pc = "train" THEN TrainUpdate(epoch) ELSE FALSE

\* one iteration of "for i, (x_i, y_i) in enumerate(zip(x, y))" of
\* forward_pass(step, x, y, dgn_weights, dgn_hyperplanes, eta, update)
ForwardStep ==
  /\ pc \in {"train", "test"}
  /\ i < Len(PassY)
  /\ Coarse(dgn_weights)
  /\ call' = StepFn(step, PassX[i + 1], dgn_weights, dgn_hyperplanes,
                    RI(PassY[i + 1]), eta, eps, PassUpdate)
  /\ dgn_weights' = call'.weights
  /\ dgn_hyperplanes' = call'.hyperplanes
  /\ outputs' = [outputs EXCEPT ![i + 1] = call'.r_out]
  /\ losses' = [losses EXCEPT ![i + 1] = call'.loss]
  /\ i' = i + 1
  /\ n_calls' = n_calls + 1
  /\ log' = Append(log, [inputs |-> PassX[i + 1], target |-> PassY[i + 1],
                         update |-> PassUpdate, w_before |-> dgn_weights,
                         w_after |-> call'.weights])
  /\ UNCHANGED <<network_vars, n_epochs, epoch, pc, train_loss, test_loss,
                 x_train, y_train, x_test, y_test>>

\* "return np.mean(losses), outputs" of the training-set pass, and the
\* np.zeros of the test-set pass
TrainReturn ==
  /\ pc = "train" /\ i = Len(y_train)
  /\ train_loss' = Mean(losses)
  /\ pc' = "test" /\ i' = 0
  /\ losses' = Zeros(y_test) /\ outputs' = Zeros(y_test)
  /\ log' = <<>>
  /\ UNCHANGED <<network_vars, dgn_weights, dgn_hyperplanes, call, n_calls,
                 n_epochs, epoch, test_loss, x_train, y_train, x_test, y_test>>

\* "return np.mean(losses), outputs" of the test-set pass and the next
\* iteration of "for epoch in range(0, n_epochs + 1)", or its end
TestReturn ==
  /\ pc = "test" /\ i = Len(y_test)
  /\ test_loss' = Mean(losses)
  /\ IF epoch < n_epochs
     THEN /\ epoch' = epoch + 1 /\ pc' = "train" /\ i' = 0
          /\ losses' = Zeros(y_train) /\ outputs' = Zeros(y_train)
          /\ log' = <<>>
     ELSE /\ pc' = "done"
          /\ UNCHANGED <<epoch, i, losses, outputs, log>>
  /\ UNCHANGED <<network_vars, dgn_weights, dgn_hyperplanes, call, n_calls,
                 n_epochs, train_loss, x_train, y_train, x_test, y_test>>

NextDriver == ForwardStep \/ TrainReturn \/ TestReturn

SpecDriver == InitDriver /\ [][NextDriver]_vars

----------------------------------------------------------------------------
(* Properties of a call of step                                            *)

Called == call.fn # "none"
Layers == 1..Len(n_neurons)
Neurons(l) == 1..n_neurons[l]
Branches == 1..n_branches

Gate(l, n, b) == call.layers[l].gate_values[n][b]
Proj(l, n, b) == Projection(dgn_hyperplanes[l][n][b], call.side_info)
ZeroVector(v) == [k \in 1..Len(v) |-> Zero]

\* C1: step_square_loss on one neuron with one active branch, two features,
\* zero weights, input [1, 1], target 2.0, learning_rate 0.1, update=True
\* returns prediction 0.0 and loss 2.0 and leaves the weights [0.2, 0.2, 0.2].
C1_Case ==
  /\ Called /\ call.fn = "step_square_loss"
  /\ n_neurons = <<1>> /\ n_branches = 1 /\ n_features = 2
  /\ Proj(1, 1, 1) > 0
  /\ call.w_before = ZeroWeights(n_neurons, n_branches, n_features)
  /\ call.inputs = <<1, 1>> /\ call.target = RI(2)
  /\ call.learning_rate = <<1, 10>> /\ call.update

C1_EndToEnd ==
  C1_Case =>
    /\ call.r_out = Zero
    /\ call.loss = RI(2)
    /\ dgn_weights[1][1][1] = << <<1, 5>>, <<1, 5>>, <<1, 5>> >>

C1_Witness == C1_Case

\* C2: a call with update=True leaves the weight slice w[n, b, :] of every
\* branch whose gate is inactive exactly as it was; only slices of active
\* branches can change.
C2_InactiveUnchanged ==
  (Called /\ call.update) =>
    \A l \in Layers : \A n \in Neurons(l) : \A b \in Branches :
      ~Gate(l, n, b) => dgn_weights[l][n][b] = call.w_before[l][n][b]

\* C2 witness: an updating call of step_bernoulli where some layer has an
\* inactive branch, with a non-zero gradient for its neuron, next to an
\* active branch whose weights changed.
C2_Witness ==
  /\ Called /\ call.update /\ call.fn = "step_bernoulli"
  /\ \E l \in Layers : \E n, m \in Neurons(l) : \E b, c \in Branches :
       /\ ~Gate(l, n, b)
       /\ call.layers[l].r_out[n] # call.target
       /\ call.layers[l].update_indicator[n]
       /\ Gate(l, m, c)
       /\ dgn_weights[l][m][c] # call.w_before[l][m][c]

\* the square-loss counterpart of C2_Witness
C2_WitnessSquare ==
  /\ Called /\ call.update /\ call.fn = "step_square_loss"
  /\ \E l \in Layers : \E n, m \in Neurons(l) : \E b, c \in Branches :
       /\ ~Gate(l, n, b)
       /\ call.layers[l].r_out[n] # call.target
       /\ Gate(l, m, c)
       /\ dgn_weights[l][m][c] # call.w_before[l][m][c]

\* |target - r_out_unclipped| <= epsilon for neuron n of layer l
WithinEpsilon(l, n) ==
  RLe(RAbs(RSub(call.target, call.layers[l].r_out_unclipped[n])), eps)

\* C3: in step_bernoulli with update=True, a neuron whose unclipped output is
\* within epsilon of the target keeps all its branch weights, whatever its
\* gates; any other neuron's weights move by the gated gradient computed
\* from the clipped output.
C3_SkipWithinEpsilon ==
  (Called /\ call.fn = "step_bernoulli" /\ call.update) =>
    \A l \in Layers : \A n \in Neurons(l) :
      IF WithinEpsilon(l, n)
      THEN dgn_weights[l][n] = call.w_before[l][n]
      ELSE \A b \in Branches : \A k \in 1..Len(call.layers[l].h_in) :
             dgn_weights[l][n][b][k] =
               RSub(call.w_before[l][n][b][k],
                    RMul(RMul(call.learning_rate, Num(Gate(l, n, b))),
                         RMul(RSub(Clip(call.layers[l].r_out_unclipped[n],
                                        eps, RSub(One, eps)),
                                   call.target),
                              call.layers[l].h_in[k])))

\* C3 witness: an updating call where a neuron with an active branch is
\* within epsilon of the target (its update is skipped), its unclipped
\* output being outside [epsilon, 1 - epsilon].
C3_Witness ==
  /\ Called /\ call.fn = "step_bernoulli" /\ call.update
  /\ \E l \in Layers : \E n \in Neurons(l) : \E b \in Branches :
       /\ WithinEpsilon(l, n)
       /\ Gate(l, n, b)
       /\ call.layers[l].r_out_unclipped[n] # call.layers[l].r_out[n]

\* the other case of C3: an update that is not skipped, where the clipped
\* output differs from the unclipped one
C3_WitnessClipped ==
  /\ Called /\ call.fn = "step_bernoulli" /\ call.update
  /\ \E l \in Layers : \E n \in Neurons(l) : \E b \in Branches :
       /\ ~WithinEpsilon(l, n)
       /\ Gate(l, n, b)
       /\ call.layers[l].r_out_unclipped[n] # call.layers[l].r_out[n]
       /\ dgn_weights[l][n][b] # call.w_before[l][n][b]

\* the call repeated on the state it left, with update=False
Repeated ==
  StepFn(call.fn, call.inputs, dgn_weights, dgn_hyperplanes, call.target,
         call.learning_rate, eps, FALSE)

\* C4: a call with update=False leaves every weight tensor and every
\* hyperplane tensor unchanged, and the same call made again returns the
\* same prediction and the same loss.
C4_InferenceIdempotent ==
  (Called /\ ~call.update) =>
    /\ dgn_weights = call.w_before
    /\ dgn_hyperplanes = call.h_before
    /\ Repeated.r_out = call.r_out
    /\ Repeated.loss = call.loss

\* C4 witness: a call with update=False on trained (non-zero) weights whose
\* target differs from the prediction, so that an update would move them.
C4_Witness ==
  /\ Called /\ ~call.update
  /\ dgn_weights # ZeroWeights(n_neurons, n_branches, n_features)
  /\ call.r_out # call.target
  /\ call.r_out # Zero
  /\ \E l \in Layers : \E n \in Neurons(l) : \E b \in Branches : Gate(l, n, b)

\* C5: every layer's output activation in step_bernoulli, and the returned
\* prediction, lies in [epsilon, 1 - epsilon], with update=True or False.
C5_OutputClipped ==
  (Called /\ call.fn = "step_bernoulli") =>
    /\ RLt(Zero, eps) /\ RLt(eps, <<1, 2>>)
    /\ \A l \in Layers : \A n \in Neurons(l) :
         /\ RLe(eps, call.layers[l].r_out[n])
         /\ RLe(call.layers[l].r_out[n], RSub(One, eps))
    /\ RLe(eps, call.r_out) /\ RLe(call.r_out, RSub(One, eps))

\* C5 witness: an updating call whose combined log-odds put the sigmoid of
\* the output neuron above 1 - epsilon.
C5_Witness ==
  /\ Called /\ call.fn = "step_bernoulli" /\ call.update
  /\ RLt(RSub(One, eps),
         call.layers[Len(n_neurons)].r_out_unclipped[1])

\* the squared Euclidean norm of the non-bias components of a hyperplane as
\* drawn: all components but component 0, the one the gating dot product
\* multiplies with hyperplane_bias_magnitude
NonBiasNormSq(num) == ISum([k \in 1..(Len(num) - 1) |-> num[k + 1] * num[k + 1]])

\* C6: after initialization the non-bias components of every hyperplane
\* have Euclidean norm 1: the squared norm of the drawn non-bias components
\* equals the square of the norm the hyperplane was divided by.
C6_UnitNorm ==
  \A l \in Layers : \A n \in Neurons(l) : \A b \in Branches :
    NonBiasNormSq(dgn_hyperplanes[l][n][b].num) = dgn_hyperplanes[l][n][b].den2

\* the sum of neuron n's own branch weight vectors over its active branches
OwnGatedWeights(l, n) ==
  [k \in 1..Len(call.layers[l].h_in) |->
    RSum([b \in Branches |->
      RMul(Num(Gate(l, n, b)), call.w_before[l][n][b][k])])]

\* C7: the combined output of every neuron n (the activation, or the
\* log-odds before the sigmoid) is the dot product of the bias-augmented
\* incoming activation with the sum of n's own weight vectors over n's
\* active branches.
C7_OwnWeightsOnly ==
  Called =>
    \A l \in Layers : \A n \in Neurons(l) :
      call.layers[l].h_out[n] =
        Dot(OwnGatedWeights(l, n), call.layers[l].h_in)

\* the weights before the call with the slice of branch b of neuron n zeroed
WithoutBranch(l, n, b) ==
  [call.w_before[l] EXCEPT ![n][b] = ZeroVector(call.w_before[l][n][b])]

ActiveBranches(l, n) == {b \in Branches : Gate(l, n, b)}

\* C10: for every layer, neuron and input at most one of the neuron's
\* branches has an active gate.
C10_MutuallyExclusive ==
  Called =>
    \A l \in Layers : \A n \in Neurons(l) : Cardinality(ActiveBranches(l, n)) <= 1

\* C10 as amended: branches are not mutually exclusive; the active branches
\* of a neuron are as many as its hyperplanes with a strictly positive
\* projection, any number from 0 to n_branches.
C10_ActiveCount ==
  Called =>
    \A l \in Layers : \A n \in Neurons(l) :
      /\ Cardinality(ActiveBranches(l, n)) =
           Cardinality({b \in Branches : Proj(l, n, b) > 0})
      /\ Cardinality(ActiveBranches(l, n)) \in 0..n_branches

\* C10 witness: a neuron with all of its two branches active at once, and a
\* neuron with a branch off on a projection of zero.
C10_Witness ==
  /\ Called /\ n_branches >= 2
  /\ \E l \in Layers : \E n \in Neurons(l) :
       Cardinality(ActiveBranches(l, n)) = n_branches
  /\ \E l \in Layers : \E m \in Neurons(l) :
       /\ Cardinality(ActiveBranches(l, m)) < n_branches
       /\ \E b \in Branches : Proj(l, m, b) = 0

----------------------------------------------------------------------------
(* Properties of the training loop                                         *)

\* the mean loss of a pass over x, y on the all-zero weights
ZeroWeightLoss(x, y) ==
  Mean([j \in 1..Len(y) |->
          StepFn(step, x[j], ZeroWeights(n_neurons, n_branches, n_features),
                 dgn_hyperplanes, RI(y[j]), eta, eps, FALSE).loss])

\* In every state of the loop: the pass under way has called step once per
\* example consumed, in the order presented, with update=True exactly in
\* the training-set pass of an epoch >= 1, and its calls with update=False
\* left the weights as they were; with n_epochs = 0 the weights are all
\* zero, and the losses at the end are those of the all-zero weights.
C8_State ==
  /\ pc \in {"train", "test"} =>
       /\ Len(log) = i
       /\ \A j \in 1..Len(log) :
            /\ log[j].inputs = PassX[j]
            /\ log[j].target = PassY[j]
            /\ log[j].update <=> (pc = "train" /\ epoch \in 1..n_epochs)
            /\ ~log[j].update => log[j].w_after = log[j].w_before
  /\ n_epochs = 0 =>
       dgn_weights = ZeroWeights(n_neurons, n_branches, n_features)
  /\ (pc = "done" /\ n_epochs = 0) =>
       /\ train_loss = ZeroWeightLoss(x_train, y_train)
       /\ test_loss = ZeroWeightLoss(x_test, y_test)

\* a step of the loop changes the weights only in the training-set pass of
\* an epoch of 1..n_epochs
C8_Step ==
  dgn_weights' # dgn_weights => (pc = "train" /\ epoch \in 1..n_epochs)

\* C8: weights are modified only during the training-set pass of epochs
\* 1..n_epochs; the training-set pass of epoch 0 and every test-set pass
\* call step with update=False once per example in the order presented and
\* leave the weights unchanged; with n_epochs = 0 the weights are still all
\* zero at the end and the losses are those of the all-zero weights.
C8_TrainingOnly == [](C8_State) /\ [][C8_Step]_vars

\* C8 witness: the test-set pass of an epoch >= 1 has called step on all its
\* examples, after a training-set pass that moved the weights.
C8_Witness ==
  /\ pc = "test" /\ epoch >= 1 /\ i = Len(y_test) /\ i > 0
  /\ dgn_weights # ZeroWeights(n_neurons, n_branches, n_features)

\* the loop has ended with n_epochs = 0, on losses that are not zero
C8_WitnessNoEpochs ==
  /\ pc = "done" /\ n_epochs = 0
  /\ train_loss # Zero /\ test_loss # Zero

====
